---- MODULE Spec2Model ----
(***************************************************************************)
(* Positioned I/O: the Slice and Cursor adapters of positioned-io          *)
(* (src/src/slice.rs, src/src/cursor.rs) over a byte-addressed resource,   *)
(* and the seek-then-read wrappers of src/benches/my_benchmark.rs.         *)
(*                                                                         *)
(* u64 / i64 are modelled at a reduced width of WordBits bits; every       *)
(* arithmetic step keeps that width.  An unchecked `+` of the source is a  *)
(* build-dependent step: it aborts (panics) when the build checks          *)
(* overflow and wraps modulo 2^WordBits when it does not.                  *)
(***************************************************************************)
EXTENDS Integers, Sequences, FiniteSets, TLC

\* The program's state.
\*   mem     the bytes of the backing vector
\*   chain   the Slices wrapped around it, the innermost first (offset, size)
\*   known   whether the backing resource reports a size
\*   checks  whether the build checks arithmetic overflow
\*   pos     Cursor.pos
\*   ret     the last call: its arguments and what it returned
\*   rt      the caller's loop: the write-then-read-back caller of a Cursor,
\*           write_all_at on a Slice, or the caller that reads to the end
\*   reader, lock, fpos, tpc, treq, tres   the threads sharing one reader
VARIABLES mem, chain, known, checks, pos, ret, rt, reader, lock, fpos, tpc, treq, tres

vars == <<mem, chain, known, checks, pos, ret, rt, reader, lock, fpos, tpc, treq, tres>>
threadVars == <<reader, lock, fpos, tpc, treq, tres>>

\* ---------------------------------------------------------------- bounds
\* Width, in bits, of the modelled u64 / i64.
WordBits == 5
\* Largest "small" offset / position / range bound drawn as an input.
MaxOff == 4
\* Threads that share one reader.
NThreads == 2
\* Largest caller buffer.
MaxBuf == 3
\* Capacity of the backing byte vector.
MaxLen == 5
\* Length of the backing byte vector when the program starts.
InitLen == 3

\* ------------------------------------------------------- machine integers
Modulus == 2 ^ WordBits
\* u64::max_value()
U64Max == Modulus - 1
I64Max == (Modulus \div 2) - 1
I64Min == -(Modulus \div 2)

Min(a, b) == IF a < b THEN a ELSE b

\* u64::saturating_add / u64::saturating_sub
SaturatingAdd(a, b) == IF a + b > U64Max THEN U64Max ELSE a + b
SaturatingSub(a, b) == IF a < b THEN 0 ELSE a - b

\* `x as i64` of a u64 and `x as u64` of an i64: two's complement reinterpretation.
AsI64(u) == IF u > I64Max THEN u - Modulus ELSE u
AsU64(i) == i % Modulus

\* The inputs: offsets near zero and at the top of the u64 range, and the
\* two values around the sign boundary of the signed reinterpretation.
SmallU64 == 0..MaxOff
\* positions handed to read_at / write_at
Positions == SmallU64 \cup {U64Max}
\* values of range bounds
BoundVals == SmallU64 \cup {U64Max - 1, U64Max}
\* cursor positions and seek targets
U64s == SmallU64 \cup {I64Max, I64Max + 1, U64Max - 1, U64Max}
I64s == (-MaxOff..MaxOff) \cup {I64Min, I64Max}

\* ------------------------------------------------------------- resources
\* Bytes the caller writes: the first n bytes of a fixed pattern whose bytes differ.
Pattern(n) == [i \in 1..n |-> 20 + i]
\* A caller's read buffer before the call: n bytes of zero ([0; n]).
Zeroed(n) == [i \in 1..n |-> 0]
\* The backing vector when the program starts: [10, 11, 12, ...].
InitMem == [i \in 1..InitLen |-> 9 + i]

\* What the backing medium does with one call: the whole transfer, a short
\* transfer, or an I/O failure.
Media == {"full", "short", "err"}
ShortOf(n) == IF n > 1 THEN n - 1 ELSE n

\* The results of an operation.
Ok(n, b, ro, rl)  == [kind |-> "ok", n |-> n, err |-> "none", buf |-> b, roff |-> ro, rlen |-> rl]
Err(e, b, ro, rl) == [kind |-> "err", n |-> 0, err |-> e, buf |-> b, roff |-> ro, rlen |-> rl]
Panic(b)          == [kind |-> "panic", n |-> 0, err |-> "none", buf |-> b, roff |-> -1, rlen |-> 0]

\* ReadAt of the backing byte vector: copies min(len, bytes from off to the end).
ResReadAt(m, off, buf, med) ==
    IF med = "err" THEN Err("io", buf, off, Len(buf))
    ELSE LET all == IF off >= Len(m) THEN 0 ELSE Min(Len(buf), Len(m) - off)
             n   == IF med = "short" THEN ShortOf(all) ELSE all
         IN  Ok(n, [i \in 1..Len(buf) |-> IF i <= n THEN m[off + i] ELSE buf[i]], off, Len(buf))

\* The byte vector after n bytes of buf are stored at off: a gap before off is
\* zero-filled, the vector grows when the bytes pass its end.
Stored(m, off, buf, n) ==
    LET newLen == IF off + n > Len(m) THEN off + n ELSE Len(m)
    IN  [i \in 1..newLen |->
            IF i > off /\ i <= off + n THEN buf[i - off]
            ELSE IF i <= Len(m) THEN m[i] ELSE 0]

\* WriteAt of the backing byte vector: [result, the vector afterwards].
ResWriteAt(m, off, buf, med) ==
    LET n == IF med = "short" THEN ShortOf(Len(buf)) ELSE Len(buf)
    IN  IF med = "err" THEN <<Err("io", buf, off, Len(buf)), m>>
        ELSE IF n = 0 THEN <<Ok(0, buf, off, Len(buf)), m>>
        ELSE IF off + n > MaxLen THEN <<Err("io", buf, off, Len(buf)), m>>
        ELSE <<Ok(n, buf, off, Len(buf)), Stored(m, off, buf, n)>>

\* ----------------------------------------------------------------- Slice
NoBound == [kind |-> "Unbounded", v |-> 0]
StartBounds == {NoBound} \cup {[kind |-> k, v |-> x] : k \in {"Included", "Excluded"}, x \in BoundVals}
EndBounds == StartBounds

\* Slice::new: offset and size from the range bounds.
SliceNew(sb, eb) ==
    LET offset == CASE sb.kind = "Included" -> sb.v
                    [] sb.kind = "Excluded" -> SaturatingAdd(sb.v, 1)
                    [] OTHER -> 0
        size == CASE eb.kind = "Included" ->
                        IF eb.v = U64Max
                        THEN SaturatingAdd(SaturatingSub(eb.v, offset), 1)
                        ELSE SaturatingSub(eb.v + 1, offset)
                  [] eb.kind = "Excluded" -> SaturatingSub(eb.v, offset)
                  [] OTHER -> U64Max
    IN  [offset |-> offset, size |-> size]

\* The outermost Slice of a chain.
TheSliceOf(ch) == ch[Len(ch)]

\* avail without the clip at the slice's end.
availUnclipped(s, p, bytes) == bytes

\* Slice::avail
avail(s, p, bytes) == Min(SaturatingSub(s.size, p), bytes)

\* ---------------------------------------------------- the wrapper chain
\* An I/O object is the backing vector wrapped in the Slices of `ch`, the
\* innermost first: ch = <<>> is the vector itself, Slice(Slice(vec, ..), ..)
\* has two entries.  Each call is resolved through the chain when it is made.
RECURSIVE IoReadAt(_, _, _, _, _, _), IoWriteAt(_, _, _, _, _, _), IoFlush(_, _)

\* read_at that hands the wrapped object the caller's whole buffer.
SliceReadAtWholeBuf(s, inner, m, p, buf, med, chk) ==
    LET sum == p + s.offset
    IN  IF sum > U64Max /\ chk THEN Panic(buf)
        ELSE IoReadAt(inner, m, sum % Modulus, buf, med, chk)

\* impl ReadAt for Slice: read_at
SliceReadAt(s, inner, m, p, buf, med, chk) ==
    LET bytes == avail(s, p, Len(buf))
        sum   == p + s.offset
    IN  IF sum > U64Max /\ chk THEN Panic(buf)
        ELSE LET r == IoReadAt(inner, m, sum % Modulus, SubSeq(buf, 1, bytes), med, chk)
             IN  [r EXCEPT !.buf = r.buf \o SubSeq(buf, bytes + 1, Len(buf))]

IoReadAt(ch, m, p, buf, med, chk) ==
    IF ch = <<>> THEN ResReadAt(m, p, buf, med)
    ELSE SliceReadAt(ch[Len(ch)], SubSeq(ch, 1, Len(ch) - 1), m, p, buf, med, chk)

\* write_at that hands the position down without adding the Slice's offset.
SliceWriteAtNoOffset(s, inner, m, p, buf, med, chk) ==
    LET bytes == avail(s, p, Len(buf))
        r     == IoWriteAt(inner, m, p, SubSeq(buf, 1, bytes), med, chk)
    IN  <<[r[1] EXCEPT !.buf = buf], r[2]>>

\* impl WriteAt for Slice: write_at.  <<result, the vector afterwards>>
SliceWriteAt(s, inner, m, p, buf, med, chk) ==
    LET bytes == avail(s, p, Len(buf))
        sum   == p + s.offset
    IN  IF sum > U64Max /\ chk THEN <<Panic(buf), m>>
        ELSE LET r == IoWriteAt(inner, m, sum % Modulus, SubSeq(buf, 1, bytes), med, chk)
             IN  <<[r[1] EXCEPT !.buf = buf], r[2]>>

IoWriteAt(ch, m, p, buf, med, chk) ==
    IF ch = <<>> THEN ResWriteAt(m, p, buf, med)
    ELSE SliceWriteAt(ch[Len(ch)], SubSeq(ch, 1, Len(ch) - 1), m, p, buf, med, chk)

\* WriteAt::flush of the backing vector, and impl WriteAt for Slice: flush,
\* which hands the call down.
ResFlush(med) == IF med = "err" THEN Err("io", <<>>, -1, 0) ELSE Ok(0, <<>>, -1, 0)
SliceFlush(inner, med) == IoFlush(inner, med)
IoFlush(ch, med) == IF ch = <<>> THEN ResFlush(med) ELSE SliceFlush(SubSeq(ch, 1, Len(ch) - 1), med)

\* Size::size: Ok(Some(n)) is [kind "ok", some TRUE, n], Ok(None) is [kind "ok", some FALSE].
SizeSome(n) == [kind |-> "ok", some |-> TRUE, n |-> n, err |-> "none"]
SizeNone    == [kind |-> "ok", some |-> FALSE, n |-> 0, err |-> "none"]
SizeErr(e)  == [kind |-> "err", some |-> FALSE, n |-> 0, err |-> e]

\* Size of the backing resource: a vector knows its length, a resource that
\* keeps the trait's default reports no size; the query itself may fail.
ResSize(m, kn, med) ==
    IF med = "err" THEN SizeErr("io")
    ELSE IF kn THEN SizeSome(Len(m)) ELSE SizeNone

\* impl Size for Slice: size
SliceSize(s) == IF s.size = U64Max THEN SizeNone ELSE SizeSome(s.size)

IoSize(ch, m, kn, med) ==
    IF ch = <<>> THEN ResSize(m, kn, med) ELSE SliceSize(ch[Len(ch)])

\* new_to_end that takes the reported size as an included end (offset..=size).
SliceNewToEndInclusive(ch, m, kn, med, offset) ==
    LET sz == IoSize(ch, m, kn, med)
    IN  IF sz.kind = "ok" /\ sz.some
        THEN [kind |-> "ok", err |-> "none",
              slice |-> SliceNew([kind |-> "Included", v |-> offset], [kind |-> "Included", v |-> sz.n])]
        ELSE [kind |-> "err", err |-> "InvalidData", slice |-> [offset |-> 0, size |-> 0]]

\* Slice::new_to_end: [kind, err, slice]
SliceNewToEnd(ch, m, kn, med, offset) ==
    LET sz == IoSize(ch, m, kn, med)
    IN  IF sz.kind = "ok" /\ sz.some
        THEN [kind |-> "ok", err |-> "none",
              slice |-> SliceNew([kind |-> "Included", v |-> offset], [kind |-> "Excluded", v |-> sz.n])]
        ELSE [kind |-> "err", err |-> "InvalidData", slice |-> [offset |-> 0, size |-> 0]]

\* ---------------------------------------------------------------- Cursor
\* The signed sum of two i64: aborts in a build that checks overflow, wraps otherwise.
WrapI64(x) == AsI64(x % Modulus)
I64Overflows(x) == x > I64Max \/ x < I64Min

\* read that advances pos by the length of the buffer, not by the bytes read.
CursorReadWholeBuf(ch, m, ps, buf, med, chk) ==
    LET r == IoReadAt(ch, m, ps, buf, med, chk)
    IN  IF r.kind # "ok" THEN <<r, ps>> ELSE <<r, (ps + Len(buf)) % Modulus>>

\* read that returns the bytes but leaves pos where it was.
CursorReadNoAdvance(ch, m, ps, buf, med, chk) ==
    <<IoReadAt(ch, m, ps, buf, med, chk), ps>>

\* impl Read for Cursor: read.  <<result, pos afterwards>>
CursorRead(ch, m, ps, buf, med, chk) ==
    LET r == IoReadAt(ch, m, ps, buf, med, chk)
    IN  IF r.kind # "ok" THEN <<r, ps>>
        ELSE IF ps + r.n > U64Max /\ chk THEN <<Panic(r.buf), ps>>
        ELSE <<r, (ps + r.n) % Modulus>>

\* write that advances pos by the length of the buffer, not by the bytes written.
CursorWriteWholeBuf(ch, m, ps, buf, med, chk) ==
    LET w == IoWriteAt(ch, m, ps, buf, med, chk)
    IN  IF w[1].kind # "ok" THEN <<w[1], ps, w[2]>>
        ELSE <<w[1], (ps + Len(buf)) % Modulus, w[2]>>

\* impl Write for Cursor: write.  <<result, pos afterwards, the vector afterwards>>
CursorWrite(ch, m, ps, buf, med, chk) ==
    LET w == IoWriteAt(ch, m, ps, buf, med, chk)
        r == w[1]
    IN  IF r.kind # "ok" THEN <<r, ps, w[2]>>
        ELSE IF ps + r.n > U64Max /\ chk THEN <<Panic(r.buf), ps, w[2]>>
        ELSE <<r, (ps + r.n) % Modulus, w[2]>>

\* impl Write for Cursor: flush
CursorFlush(ch, med) == IoFlush(ch, med)

\* impl Seek for Cursor: seek.  <<result (n is the position returned), pos afterwards>>
SeekStart(ps, p) == <<Ok(p, <<>>, -1, 0), p>>

\* seek(Current) that stores the position before it tests its sign.
SeekCurrentStoreFirst(ps, p, chk) ==
    LET np == WrapI64(AsI64(ps) + p)
    IN  IF np < 0 THEN <<Err("InvalidInput", <<>>, -1, 0), AsU64(np)>>
        ELSE <<Ok(AsU64(np), <<>>, -1, 0), AsU64(np)>>

SeekCurrent(ps, p, chk) ==
    LET sum == AsI64(ps) + p
        np  == WrapI64(sum)
    IN  IF I64Overflows(sum) /\ chk THEN <<Panic(<<>>), ps>>
        ELSE IF np < 0 THEN <<Err("InvalidInput", <<>>, -1, 0), ps>>
        ELSE <<Ok(AsU64(np), <<>>, -1, 0), AsU64(np)>>

SeekEnd(ch, m, kn, ps, p, med, chk) ==
    LET end == IoSize(ch, m, kn, med)
        sum == AsI64(end.n) + p
    IN  IF end.kind = "err" THEN <<Err(end.err, <<>>, -1, 0), ps>>
        ELSE IF ~end.some THEN <<Err("InvalidInput", <<>>, -1, 0), ps>>
        ELSE IF I64Overflows(sum) /\ chk THEN <<Panic(<<>>), ps>>
        ELSE <<Ok(AsU64(WrapI64(sum)), <<>>, -1, 0), AsU64(WrapI64(sum))>>

\* ------------------------------------------------------------ the record
\* of the last call: op, the position it was made at, its length or delta,
\* what the medium did, and the result.
Log(op, at, arg, med, r) ==
    [op |-> op, at |-> at, arg |-> arg, med |-> med,
     kind |-> r.kind, n |-> r.n, err |-> r.err, buf |-> r.buf,
     roff |-> r.roff, rlen |-> r.rlen, some |-> FALSE]
LogSize(op, at, arg, med, sz) ==
    [op |-> op, at |-> at, arg |-> arg, med |-> med,
     kind |-> sz.kind, n |-> sz.n, err |-> sz.err, buf |-> <<>>,
     roff |-> -1, rlen |-> 0, some |-> sz.some]
NoCall == Log("none", 0, 0, "full", Ok(0, <<>>, -1, 0))

\* A panic aborts the program: nothing runs after it.
Running == ret.kind # "panic"

\* The caller of the write-then-read-back round trip is idle in the other programs.
RtIdle == [pc |-> "idle", P |-> 0, N |-> 0, done |-> 0, got |-> <<>>, wpos |-> 0]
ThreadsIdle ==
    /\ reader = "none"
    /\ lock = 0
    /\ fpos = 0
    /\ tpc = <<>>
    /\ treq = <<>>
    /\ tres = <<>>

\* ------------------------------------------------- Slice used directly
\* slice.read_at(p, &mut [0; len])
ReadAt ==
    /\ Running
    /\ \E p \in Positions, len \in 0..MaxBuf, med \in Media :
          ret' = Log("read_at", p, len, med, IoReadAt(chain, mem, p, Zeroed(len), med, checks))
    /\ UNCHANGED <<mem, chain, known, checks, pos, rt, threadVars>>

\* slice.write_at(p, &pattern[..len])
WriteAt ==
    /\ Running
    /\ \E p \in Positions, len \in 0..MaxBuf, med \in Media :
          LET w == IoWriteAt(chain, mem, p, Pattern(len), med, checks)
          IN  /\ ret' = Log("write_at", p, len, med, w[1])
              /\ mem' = w[2]
    /\ UNCHANGED <<chain, known, checks, pos, rt, threadVars>>

\* slice.flush()
Flush ==
    /\ Running
    /\ \E med \in Media \ {"short"} :
          ret' = Log("flush", 0, 0, med, IoFlush(chain, med))
    /\ UNCHANGED <<mem, chain, known, checks, pos, rt, threadVars>>

\* slice.size()
Size ==
    /\ Running
    /\ \E med \in Media \ {"short"} :
          ret' = LogSize("size", 0, 0, med, IoSize(chain, mem, known, med))
    /\ UNCHANGED <<mem, chain, known, checks, pos, rt, threadVars>>

\* The program holds Slice::new(vec, a..b) or Slice::new(vec, a..), and writes
\* and reads through it.
InitSliceW ==
    /\ mem = InitMem
    /\ \E a \in SmallU64, eb \in {NoBound} \cup {[kind |-> "Excluded", v |-> b] : b \in SmallU64} :
          chain = <<SliceNew([kind |-> "Included", v |-> a], eb)>>
    /\ known = TRUE
    /\ checks \in BOOLEAN
    /\ pos = 0
    /\ ret = NoCall
    /\ rt = RtIdle
    /\ ThreadsIdle

NextSliceW == WriteAt \/ Flush

SpecSliceW == InitSliceW /\ [][NextSliceW]_vars

\* ----------------------------------------------------------- Cursor used
\* cursor.read(&mut [0; len])
Read ==
    /\ Running
    /\ \E len \in 0..MaxBuf, med \in Media :
          LET c == CursorRead(chain, mem, pos, Zeroed(len), med, checks)
          IN  /\ ret' = Log("read", pos, len, med, c[1])
              /\ pos' = c[2]
    /\ UNCHANGED <<mem, chain, known, checks, rt, threadVars>>

\* cursor.write(&pattern[..len])
Write ==
    /\ Running
    /\ \E len \in 0..MaxBuf, med \in Media :
          LET c == CursorWrite(chain, mem, pos, Pattern(len), med, checks)
          IN  /\ ret' = Log("write", pos, len, med, c[1])
              /\ pos' = c[2]
              /\ mem' = c[3]
    /\ UNCHANGED <<chain, known, checks, rt, threadVars>>

\* cursor.flush()
CFlush ==
    /\ Running
    /\ \E med \in Media \ {"short"} :
          ret' = Log("cflush", pos, 0, med, CursorFlush(chain, med))
    /\ UNCHANGED <<mem, chain, known, checks, pos, rt, threadVars>>

\* cursor.seek(SeekFrom::Start(p))
SeekFromStart ==
    /\ Running
    /\ \E p \in U64s :
          LET c == SeekStart(pos, p)
          IN  /\ ret' = Log("seek_start", pos, p, "full", c[1])
              /\ pos' = c[2]
    /\ UNCHANGED <<mem, chain, known, checks, rt, threadVars>>

\* cursor.seek(SeekFrom::Current(p))
SeekFromCurrent ==
    /\ Running
    /\ \E p \in I64s :
          LET c == SeekCurrent(pos, p, checks)
          IN  /\ ret' = Log("seek_current", pos, p, "full", c[1])
              /\ pos' = c[2]
    /\ UNCHANGED <<mem, chain, known, checks, rt, threadVars>>

\* cursor.seek(SeekFrom::End(p))
SeekFromEnd ==
    /\ Running
    /\ \E p \in I64s, med \in Media \ {"short"} :
          LET c == SeekEnd(chain, mem, known, pos, p, med, checks)
          IN  /\ ret' = Log("seek_end", pos, p, med, c[1])
              /\ pos' = c[2]
    /\ UNCHANGED <<mem, chain, known, checks, rt, threadVars>>

\* cursor.set_position(p)
SetPosition ==
    /\ Running
    /\ \E p \in U64s :
          /\ ret' = Log("set_position", pos, p, "full", Ok(0, <<>>, -1, 0))
          /\ pos' = p
    /\ UNCHANGED <<mem, chain, known, checks, rt, threadVars>>

\* The program holds Cursor::new_pos(io, p): io is the vector, a resource of
\* unknown size, or a Slice of it that starts at 0.
InitSeek ==
    /\ mem = InitMem
    /\ \/ chain = <<>> /\ known \in BOOLEAN
       \/ /\ known = TRUE
          /\ \E eb \in {NoBound} \cup {[kind |-> "Excluded", v |-> b] : b \in U64s} :
                chain = <<SliceNew(NoBound, eb)>>
    /\ checks \in BOOLEAN
    /\ pos \in U64s
    /\ ret = NoCall
    /\ rt = RtIdle
    /\ ThreadsIdle

NextSeek == SeekFromStart \/ SeekFromCurrent \/ SeekFromEnd \/ SetPosition

SpecSeek == InitSeek /\ [][NextSeek]_vars

\* The program holds Cursor::new_pos(io, p) and reads and writes through it;
\* io is the vector or a Slice of it.
CursorSlices ==
    {SliceNew([kind |-> "Included", v |-> a], eb) :
        a \in 0..1, eb \in {NoBound, [kind |-> "Excluded", v |-> 2], [kind |-> "Excluded", v |-> 3]}}

InitCursor ==
    /\ mem = InitMem
    /\ chain \in {<<>>} \cup {<<s>> : s \in CursorSlices}
    /\ known = TRUE
    /\ checks \in BOOLEAN
    /\ pos \in Positions
    /\ ret = NoCall
    /\ rt = RtIdle
    /\ ThreadsIdle

NextCursor == Read \/ Write \/ CFlush

SpecCursor == InitCursor /\ [][NextCursor]_vars

\* Slice::new_to_end(vec, offset): on success the program holds the new Slice.
NewToEnd ==
    /\ Running
    /\ chain = <<>>
    /\ \E offset \in Positions, med \in Media \ {"short"} :
          LET c == SliceNewToEnd(chain, mem, known, med, offset)
          IN  /\ ret' = Log("new_to_end", offset, 0, med,
                            IF c.kind = "ok" THEN Ok(c.slice.size, <<>>, -1, 0)
                            ELSE Err(c.err, <<>>, -1, 0))
              /\ chain' = IF c.kind = "ok" THEN Append(chain, c.slice) ELSE chain
    /\ UNCHANGED <<mem, known, checks, pos, rt, threadVars>>

\* The program holds the backing resource or Slice::new(vec, bounds) for some
\* range bounds; it reads through it, or wraps the resource with new_to_end.
InitSlice ==
    /\ mem = InitMem
    /\ \/ chain = <<>> /\ known \in BOOLEAN
       \/ /\ known = TRUE
          /\ \E sb \in StartBounds, eb \in EndBounds : chain = <<SliceNew(sb, eb)>>
    /\ checks \in BOOLEAN
    /\ pos = 0
    /\ ret = NoCall
    /\ rt = RtIdle
    /\ ThreadsIdle

NextSlice == ReadAt \/ Flush \/ Size \/ NewToEnd

SpecSlice == InitSlice /\ [][NextSlice]_vars

\* The program holds Slice::new(Slice::new(vec, a..b), c..d) and reads through it.
InitCompose ==
    /\ mem = InitMem
    /\ \E a \in SmallU64, b \in SmallU64, c \in SmallU64, d \in SmallU64 :
          chain = <<SliceNew([kind |-> "Included", v |-> a], [kind |-> "Excluded", v |-> b]),
                    SliceNew([kind |-> "Included", v |-> c], [kind |-> "Excluded", v |-> d])>>
    /\ known = TRUE
    /\ checks \in BOOLEAN
    /\ pos = 0
    /\ ret = NoCall
    /\ rt = RtIdle
    /\ ThreadsIdle

NextCompose == ReadAt

SpecCompose == InitCompose /\ [][NextCompose]_vars

\* ------------------------------------------- write, then read back
\* A caller writes the N bytes Pattern(N) through Cursor::new_pos(io, P),
\* calling write again with the rest after a short write, then reads N bytes
\* through a second Cursor::new_pos(io, P), calling read again with the rest of
\* the buffer after a short read.  rt.done counts the bytes moved so far,
\* rt.got is what was read, rt.wpos the position the writing cursor ended at.
RtWrite ==
    /\ Running
    /\ rt.pc = "write"
    /\ rt.done < rt.N
    /\ \E med \in Media :
          LET c == CursorWrite(chain, mem, pos, SubSeq(Pattern(rt.N), rt.done + 1, rt.N), med, checks)
          IN  /\ ret' = Log("write", pos, rt.N - rt.done, med, c[1])
              /\ pos' = c[2]
              /\ mem' = c[3]
              /\ rt' = IF c[1].kind = "ok" /\ c[1].n > 0
                       THEN [rt EXCEPT !.done = rt.done + c[1].n]
                       ELSE [rt EXCEPT !.pc = "failed"]
    /\ UNCHANGED <<chain, known, checks, threadVars>>

\* Everything is written: the second cursor is made at P.
RtReopen ==
    /\ Running
    /\ rt.pc = "write"
    /\ rt.done = rt.N
    /\ rt' = [rt EXCEPT !.pc = "read", !.done = 0, !.wpos = pos]
    /\ pos' = rt.P
    /\ UNCHANGED <<mem, chain, known, checks, ret, threadVars>>

RtRead ==
    /\ Running
    /\ rt.pc = "read"
    /\ rt.done < rt.N
    /\ \E med \in Media :
          LET c == CursorRead(chain, mem, pos, Zeroed(rt.N - rt.done), med, checks)
          IN  /\ ret' = Log("read", pos, rt.N - rt.done, med, c[1])
              /\ pos' = c[2]
              /\ rt' = IF c[1].kind = "ok" /\ c[1].n > 0
                       THEN [rt EXCEPT !.done = rt.done + c[1].n,
                                       !.got = rt.got \o SubSeq(c[1].buf, 1, c[1].n)]
                       ELSE [rt EXCEPT !.pc = "failed"]
    /\ UNCHANGED <<mem, chain, known, checks, threadVars>>

RtFinish ==
    /\ Running
    /\ rt.pc = "read"
    /\ rt.done = rt.N
    /\ rt' = [rt EXCEPT !.pc = "done"]
    /\ UNCHANGED <<mem, chain, known, checks, pos, ret, threadVars>>

\* io is the vector or an unbounded Slice of it.
InitRoundTrip ==
    /\ mem = InitMem
    /\ chain \in {<<>>, <<SliceNew([kind |-> "Included", v |-> 1], NoBound)>>}
    /\ known = TRUE
    /\ checks \in BOOLEAN
    /\ \E P \in Positions, N \in 0..MaxBuf :
          /\ pos = P
          /\ rt = [pc |-> "write", P |-> P, N |-> N, done |-> 0, got |-> <<>>, wpos |-> 0]
    /\ ret = NoCall
    /\ ThreadsIdle

NextRoundTrip == RtWrite \/ RtReopen \/ RtRead \/ RtFinish

SpecRoundTrip == InitRoundTrip /\ [][NextRoundTrip]_vars

\* ------------------------------------------------ threads, one reader
\* Threads 1..NThreads call read_at on one reader they share by reference,
\* each at its own offset and length; no two requests overlap.  The reader is
\* the file itself, whose read_at is one positioned read ("pread"), or
\* MutexSeek(Mutex<File>), whose read_at locks the file, seeks it and reads at
\* its cursor fpos ("mutex"); either may be wrapped in a Slice (chain).
Threads == 1..NThreads

\* What a thread's call reaches the reader with: the Slice, if there is one,
\* translates the offset and clips the length.
Target(t) ==
    IF chain = <<>> THEN [off |-> treq[t].off, len |-> treq[t].len]
    ELSE [off |-> (treq[t].off + TheSliceOf(chain).offset) % Modulus,
          len |-> avail(TheSliceOf(chain), treq[t].off, treq[t].len)]

\* The buffer the caller sees: the part handed down, then the rest untouched.
Whole(t, r) == [r EXCEPT !.buf = r.buf \o SubSeq(Zeroed(treq[t].len), Len(r.buf) + 1, treq[t].len)]

ThreadResult(r, med) ==
    [kind |-> r.kind, n |-> r.n, err |-> r.err, buf |-> r.buf, med |-> med]

\* A lock that is handed out while another thread holds it.
LockIsAlwaysFree(l) == TRUE

\* Mutex::lock: taken when no thread holds it.
LockIsFree(l) == l = 0

\* File's positioned read: one step, no cursor.
TPread(t) ==
    /\ reader = "pread"
    /\ tpc[t] = "start"
    /\ \E med \in Media :
          tres' = [tres EXCEPT ![t] =
                     ThreadResult(Whole(t, ResReadAt(mem, Target(t).off, Zeroed(Target(t).len), med)), med)]
    /\ tpc' = [tpc EXCEPT ![t] = "done"]
    /\ UNCHANGED <<mem, chain, known, checks, pos, ret, rt, reader, lock, fpos, treq>>

\* MutexSeek::read_at: let mut r = self.0.lock().unwrap();
TLock(t) ==
    /\ reader = "mutex"
    /\ tpc[t] = "start"
    /\ LockIsFree(lock)
    /\ lock' = t
    /\ tpc' = [tpc EXCEPT ![t] = "locked"]
    /\ UNCHANGED <<mem, chain, known, checks, pos, ret, rt, reader, fpos, treq, tres>>

\* r.seek(SeekFrom::Start(pos))?;  a failed seek returns the error and drops the guard.
TSeek(t) ==
    /\ tpc[t] = "locked"
    /\ \E med \in Media \ {"short"} :
          IF med = "err"
          THEN /\ tres' = [tres EXCEPT ![t] = ThreadResult(Err("io", Zeroed(treq[t].len), -1, 0), med)]
               /\ tpc' = [tpc EXCEPT ![t] = "done"]
               /\ lock' = 0
               /\ fpos' = fpos
          ELSE /\ fpos' = Target(t).off
               /\ tpc' = [tpc EXCEPT ![t] = "sought"]
               /\ UNCHANGED <<lock, tres>>
    /\ UNCHANGED <<mem, chain, known, checks, pos, ret, rt, reader, treq>>

\* r.read(buf): reads at the file's cursor and advances it.
TFileRead(t) ==
    /\ tpc[t] = "sought"
    /\ \E med \in Media :
          LET r == ResReadAt(mem, fpos, Zeroed(Target(t).len), med)
          IN  /\ tres' = [tres EXCEPT ![t] = ThreadResult(Whole(t, r), med)]
              /\ fpos' = fpos + r.n
    /\ tpc' = [tpc EXCEPT ![t] = "read"]
    /\ UNCHANGED <<mem, chain, known, checks, pos, ret, rt, reader, lock, treq>>

\* The guard goes out of scope when read_at returns.
TUnlock(t) ==
    /\ tpc[t] = "read"
    /\ lock' = 0
    /\ tpc' = [tpc EXCEPT ![t] = "done"]
    /\ UNCHANGED <<mem, chain, known, checks, pos, ret, rt, reader, fpos, treq, tres>>

Overlap(q1, q2) == q1.off < q2.off + q2.len /\ q2.off < q1.off + q1.len
Requests == [off : SmallU64, len : 1..MaxBuf]
NoResult == ThreadResult(Ok(0, <<>>, -1, 0), "full")

InitThreads ==
    /\ mem = InitMem
    /\ chain \in {<<>>, <<SliceNew([kind |-> "Included", v |-> 1], [kind |-> "Excluded", v |-> 3])>>}
    /\ known = TRUE
    /\ checks \in BOOLEAN
    /\ pos = 0
    /\ ret = NoCall
    /\ rt = RtIdle
    /\ reader \in {"pread", "mutex"}
    /\ lock = 0
    /\ fpos = 0
    /\ tpc = [t \in Threads |-> "start"]
    /\ treq \in [Threads -> Requests]
    /\ \A t1 \in Threads, t2 \in Threads : t1 < t2 => ~Overlap(treq[t1], treq[t2])
    /\ tres = [t \in Threads |-> NoResult]

Pread == \E t \in Threads : TPread(t)
Lock == \E t \in Threads : TLock(t)
FileSeek == \E t \in Threads : TSeek(t)
FileRead == \E t \in Threads : TFileRead(t)
Unlock == \E t \in Threads : TUnlock(t)

NextThreads == Pread \/ Lock \/ FileSeek \/ FileRead \/ Unlock

SpecThreads == InitThreads /\ [][NextThreads]_vars

\* ------------------------------------------ write_all_at on a Slice
\* slice.write_all_at(P, &pattern[..N]) on Slice::new(&mut v, a..): the trait's
\* loop calls write_at with the rest of the buffer at P + done until the buffer
\* is empty; a write of 0 bytes or an error ends it with an error.
WaWrite ==
    /\ Running
    /\ rt.pc = "write_all"
    /\ rt.done < rt.N
    /\ \E med \in Media :
          LET w == IoWriteAt(chain, mem, rt.P + rt.done,
                             SubSeq(Pattern(rt.N), rt.done + 1, rt.N), med, checks)
          IN  /\ ret' = Log("write_at", rt.P + rt.done, rt.N - rt.done, med, w[1])
              /\ mem' = w[2]
              /\ rt' = IF w[1].kind = "ok" /\ w[1].n > 0
                       THEN [rt EXCEPT !.done = rt.done + w[1].n]
                       ELSE IF w[1].kind = "panic" THEN rt
                       ELSE [rt EXCEPT !.pc = "wa_failed"]
    /\ UNCHANGED <<chain, known, checks, pos, threadVars>>

\* The buffer is empty: write_all_at returns Ok(()).
WaFinish ==
    /\ Running
    /\ rt.pc = "write_all"
    /\ rt.done = rt.N
    /\ rt' = [rt EXCEPT !.pc = "wa_done"]
    /\ UNCHANGED <<mem, chain, known, checks, pos, ret, threadVars>>

\* The program holds Slice::new(&mut v, a..) and calls write_all_at once.
InitWriteAll ==
    /\ mem = InitMem
    /\ \E a \in SmallU64 : chain = <<SliceNew([kind |-> "Included", v |-> a], NoBound)>>
    /\ known = TRUE
    /\ checks \in BOOLEAN
    /\ pos = 0
    /\ \E P \in Positions, N \in 0..MaxBuf :
          rt = [pc |-> "write_all", P |-> P, N |-> N, done |-> 0, got |-> <<>>, wpos |-> 0]
    /\ ret = NoCall
    /\ ThreadsIdle

NextWriteAll == WaWrite \/ WaFinish

SpecWriteAll == InitWriteAll /\ [][NextWriteAll]_vars

\* ------------------------------------------------------- Slice::new
\* The record of a Slice::new call: the bounds it was given.
LogNew(sb, eb) ==
    [op |-> "new", at |-> sb.v, arg |-> eb.v, med |-> "full",
     kind |-> "ok", n |-> 0, err |-> "none", buf |-> <<>>,
     roff |-> -1, rlen |-> 0, some |-> FALSE, sb |-> sb, eb |-> eb]

\* Slice::new(io, bounds) for any start and end bound: the program then holds
\* the new Slice of the vector.
New ==
    /\ Running
    /\ \E sb \in StartBounds, eb \in EndBounds :
          /\ chain' = <<SliceNew(sb, eb)>>
          /\ ret' = LogNew(sb, eb)
    /\ UNCHANGED <<mem, known, checks, pos, rt, threadVars>>

InitNew ==
    /\ mem = InitMem
    /\ chain = <<>>
    /\ known = TRUE
    /\ checks \in BOOLEAN
    /\ pos = 0
    /\ ret = NoCall
    /\ rt = RtIdle
    /\ ThreadsIdle

NextNew == New

SpecNew == InitNew /\ [][NextNew]_vars

\* ------------------------------------- a Slice over a resource that changes
\* The wrapped resource loses its last byte (a file truncated through another
\* handle): the Slice is not told.
Shrink ==
    /\ Running
    /\ chain # <<>>
    /\ Len(mem) > 0
    /\ mem' = SubSeq(mem, 1, Len(mem) - 1)
    /\ UNCHANGED <<chain, known, checks, pos, ret, rt, threadVars>>

\* Slices with a bounded and with an unbounded end, up to the top of u64.
SizedSlices ==
    {SliceNew(sb, eb) :
        sb \in {NoBound},
        eb \in {NoBound, [kind |-> "Excluded", v |-> 2], [kind |-> "Excluded", v |-> U64Max]}}

\* The program holds one of these Slices of the vector; it reads, writes and
\* flushes through it and asks its size while the vector grows and shrinks.
InitSized ==
    /\ mem = InitMem
    /\ chain \in {<<s>> : s \in SizedSlices}
    /\ known = TRUE
    /\ checks \in BOOLEAN
    /\ pos = 0
    /\ ret = NoCall
    /\ rt = RtIdle
    /\ ThreadsIdle

NextSized == ReadAt \/ WriteAt \/ Flush \/ Size \/ Shrink

SpecSized == InitSized /\ [][NextSized]_vars

\* ------------------------------------ positions at the top of the u64 range
TopPositions == {U64Max - 1, U64Max}

\* slice.read_at(p, &mut [0; len]) for a position at the top of the range
ReadAtTop ==
    /\ Running
    /\ \E p \in TopPositions, len \in 0..MaxBuf, med \in Media :
          ret' = Log("read_at", p, len, med, IoReadAt(chain, mem, p, Zeroed(len), med, checks))
    /\ UNCHANGED <<mem, chain, known, checks, pos, rt, threadVars>>

\* slice.write_at(p, &pattern[..len]) for a position at the top of the range
WriteAtTop ==
    /\ Running
    /\ \E p \in TopPositions, len \in 0..MaxBuf, med \in Media :
          LET w == IoWriteAt(chain, mem, p, Pattern(len), med, checks)
          IN  /\ ret' = Log("write_at", p, len, med, w[1])
              /\ mem' = w[2]
    /\ UNCHANGED <<chain, known, checks, pos, rt, threadVars>>

\* The program holds Slice::new(vec, a..) or Slice::new(vec, a..b).
InitTop ==
    /\ mem = InitMem
    /\ \E a \in SmallU64, eb \in {NoBound} \cup {[kind |-> "Excluded", v |-> b] : b \in BoundVals} :
          chain = <<SliceNew([kind |-> "Included", v |-> a], eb)>>
    /\ known = TRUE
    /\ checks \in BOOLEAN
    /\ pos = 0
    /\ ret = NoCall
    /\ rt = RtIdle
    /\ ThreadsIdle

NextTop == ReadAtTop \/ WriteAtTop

SpecTop == InitTop /\ [][NextTop]_vars

\* -------------------------------- a Cursor streaming over a bounded Slice
\* Slices of bounded size: a..b inside and across the vector's end, and one
\* that ends at the last address, 2..=u64::MAX.
StreamSlices ==
    {SliceNew([kind |-> "Included", v |-> a], [kind |-> "Excluded", v |-> b]) : a \in 0..1, b \in 2..3}
    \cup {SliceNew([kind |-> "Included", v |-> 2], [kind |-> "Included", v |-> U64Max])}

\* The program holds Cursor::new_pos(Slice::new(vec, range), p) with p at most
\* the Slice's size, and only reads and writes through it.
InitStream ==
    /\ mem = InitMem
    /\ \E s \in StreamSlices :
          /\ chain = <<s>>
          /\ pos \in {p \in SmallU64 \cup {s.size} : p <= s.size}
    /\ known = TRUE
    /\ checks \in BOOLEAN
    /\ ret = NoCall
    /\ rt = RtIdle
    /\ ThreadsIdle

NextStream == Read \/ Write

SpecStream == InitStream /\ [][NextStream]_vars

\* ------------------------------------------- reading a Cursor to its end
\* A caller (io::copy in the doc example) calls cursor.read with a non-empty
\* buffer again and again: it appends the bytes of each read to rt.got, takes
\* a read of 0 bytes as the end of the data and stops at an error.  rt.P is
\* the position the cursor was made at, rt.N the number of reads made.
RaRead ==
    /\ Running
    /\ rt.pc \in {"read_all", "eof"}
    /\ \E len \in 1..MaxBuf, med \in Media :
          LET c == CursorRead(chain, mem, pos, Zeroed(len), med, checks)
          IN  /\ ret' = Log("read", pos, len, med, c[1])
              /\ pos' = c[2]
              /\ rt' = IF rt.pc = "eof" \/ c[1].kind = "panic" THEN rt
                       ELSE IF c[1].kind = "err" THEN [rt EXCEPT !.pc = "failed"]
                       ELSE IF c[1].n = 0 THEN [rt EXCEPT !.pc = "eof", !.N = rt.N + 1]
                       ELSE [rt EXCEPT !.N = rt.N + 1, !.done = rt.done + c[1].n,
                                       !.got = rt.got \o SubSeq(c[1].buf, 1, c[1].n)]
    /\ UNCHANGED <<mem, chain, known, checks, threadVars>>

\* The bytes of the resource the cursor wraps: the vector, or the part of it
\* a Slice inside the vector shows.
ResourceBytes(ch, m) ==
    IF ch = <<>> THEN m
    ELSE SubSeq(m, TheSliceOf(ch).offset + 1, TheSliceOf(ch).offset + TheSliceOf(ch).size)

\* The program holds Cursor::new_pos(io, P), io the vector or Slice::new(vec, 1..3),
\* with P at most the length of io.
InitReadToEnd ==
    /\ mem = InitMem
    /\ chain \in {<<>>, <<SliceNew([kind |-> "Included", v |-> 1], [kind |-> "Excluded", v |-> InitLen])>>}
    /\ known = TRUE
    /\ checks \in BOOLEAN
    /\ pos \in 0..Len(ResourceBytes(chain, mem))
    /\ rt = [pc |-> "read_all", P |-> pos, N |-> 0, done |-> 0, got |-> <<>>, wpos |-> 0]
    /\ ret = NoCall
    /\ ThreadsIdle

NextReadToEnd == RaRead

\* The caller keeps calling read until the end of the data or an error.
SpecReadToEnd == InitReadToEnd /\ [][NextReadToEnd]_vars /\ WF_vars(RaRead /\ rt.pc = "read_all")

\* ====================================================================
\* Properties
\* ====================================================================
\* The Slice the program holds, and the sum of the offsets of the chain.
TheSlice == chain[Len(chain)]
RECURSIVE ChainOffset(_)
ChainOffset(ch) == IF ch = <<>> THEN 0 ELSE ch[Len(ch)].offset + ChainOffset(SubSeq(ch, 1, Len(ch) - 1))

\* C1: Slice containment.  For a Slice over [a, b) of a resource that holds
\* those bytes and reads them in full, read_at(pos, buf) returns 0 bytes for
\* every pos >= b-a, and for pos < b-a it returns min(buf.len(), (b-a)-pos)
\* bytes, which are the resource's bytes from a+pos on.
C1_SliceContainment ==
    (/\ chain # <<>>
     /\ ret.op = "read_at"
     /\ ret.med = "full"
     /\ TheSlice.offset + TheSlice.size <= Len(mem))
    => IF ret.at >= TheSlice.size
       THEN ret.kind = "ok" /\ ret.n = 0
       ELSE /\ ret.kind = "ok"
            /\ ret.n = Min(ret.arg, TheSlice.size - ret.at)
            /\ \A i \in 1..ret.n : ret.buf[i] = mem[TheSlice.offset + ret.at + i]

\* The same, for the calls that did not abort.
C1_ContainmentNoAbort == ret.kind # "panic" => C1_SliceContainment

\* C2: Slice.write_at on a Slice over [a, b) hands the wrapped resource only
\* the first min(len, (b-a)-pos) bytes, at a+pos, so no byte of the resource
\* outside [a, b) changes, whatever calls were made; a write that crosses the
\* boundary returns the truncated count as a success.
C2_WriteClipped ==
    LET a == TheSlice.offset
        b == TheSlice.offset + TheSlice.size
    IN  TheSlice.size # U64Max =>
          /\ Len(mem) >= InitLen
          /\ \A i \in 1..Len(mem) :
                (i <= a \/ i > b) =>
                    \/ i <= InitLen /\ mem[i] = InitMem[i]
                    \/ i > InitLen /\ i <= a /\ mem[i] = 0
          /\ (ret.op = "write_at" /\ ret.kind # "panic") =>
                /\ ret.rlen = Min(ret.arg, SaturatingSub(TheSlice.size, ret.at))
                /\ ret.rlen > 0 => (ret.roff = a + ret.at /\ ret.roff + ret.rlen <= b)
                /\ (ret.at < TheSlice.size /\ ret.med # "err") =>
                      /\ ret.kind = "ok"
                      /\ ret.n <= ret.rlen
                      /\ ret.med = "full" => ret.n = Min(ret.arg, TheSlice.size - ret.at)

\* C2 witness: 3 bytes written 1 before the end of a Slice that ends inside the
\* vector: 1 byte is stored, 1 is returned, the byte behind the end is as before.
C2_Witness ==
    /\ TheSlice.size # U64Max
    /\ TheSlice.size >= 1
    /\ ret.op = "write_at" /\ ret.arg = 3 /\ ret.med = "full"
    /\ ret.at = TheSlice.size - 1
    /\ ret.kind = "ok" /\ ret.n = 1
    /\ TheSlice.offset + TheSlice.size < Len(mem)
    /\ mem[TheSlice.offset + TheSlice.size] = Pattern(3)[1]
    /\ mem[TheSlice.offset + TheSlice.size + 1] = InitMem[TheSlice.offset + TheSlice.size + 1]

\* C3: seek(Current(delta)) with pos + delta < 0 fails with InvalidInput and
\* leaves pos as it was.
C3_SeekCurrentNegative ==
    (ret.op = "seek_current" /\ ret.at + ret.arg < 0)
    => (ret.kind = "err" /\ ret.err = "InvalidInput" /\ pos = ret.at)

\* C3 witness: a cursor at a position > 0 was asked to seek below zero.
C3_Witness ==
    /\ ret.op = "seek_current"
    /\ ret.at > 0
    /\ ret.at + ret.arg < 0
    /\ ret.kind = "err"
    /\ pos = ret.at

\* The size the wrapped object reports when the query succeeds.
WrappedSize == IoSize(chain, mem, known, "full")

\* C4: every seek that asks for a negative absolute position fails and leaves
\* pos as it was; in particular seek(End(delta)) with known size s, s + delta < 0.
C4_NegativeSeekFails ==
    /\ (ret.op = "seek_current" /\ ret.at + ret.arg < 0)
          => (ret.kind = "err" /\ pos = ret.at)
    /\ (ret.op = "seek_end" /\ ret.med = "full" /\ WrappedSize.some /\ WrappedSize.n + ret.arg < 0)
          => (ret.kind = "err" /\ pos = ret.at)

\* C5: seek(End(delta)) fails with InvalidInput and leaves pos as it was when
\* the size is unknown; with size s and 0 <= s + delta (<= u64::MAX) it sets pos
\* to s + delta and returns it.
C5_SeekEnd ==
    (ret.op = "seek_end" /\ ret.med = "full") =>
        /\ ~WrappedSize.some => (ret.kind = "err" /\ ret.err = "InvalidInput" /\ pos = ret.at)
        /\ (WrappedSize.some /\ WrappedSize.n + ret.arg >= 0 /\ WrappedSize.n + ret.arg <= U64Max)
              => (ret.kind = "ok" /\ pos = WrappedSize.n + ret.arg /\ ret.n = pos)

\* The same, for the calls that did not abort.
C5_SeekEndNoAbort == ret.kind # "panic" => C5_SeekEnd

\* C6: Cursor read / write call the wrapped object at the current pos; on
\* success pos is the old pos plus the count returned (short and empty
\* transfers too), on an error pos is as before; flush leaves pos alone.
C6_CursorAdvance ==
    /\ (ret.op \in {"read", "write"} /\ ret.kind = "ok") =>
          /\ pos = ret.at + ret.n
          /\ ret.rlen > 0 => ret.roff = ret.at + ChainOffset(chain)
    /\ (ret.op \in {"read", "write"} /\ ret.kind = "err") => pos = ret.at
    /\ ret.op = "cflush" => pos = ret.at

\* C6 witness: a short read of at least one byte moved pos by the bytes read.
C6_Witness ==
    /\ ret.op = "read" /\ ret.med = "short" /\ ret.kind = "ok"
    /\ ret.n >= 1 /\ ret.n < ret.arg
    /\ pos = ret.at + ret.n

\* C7: Cursor round trip.  When N bytes were written through a Cursor made at
\* P and N bytes were read through a second Cursor made at P, the bytes read
\* are the bytes written and both cursors are at P + N.
C7_RoundTrip ==
    rt.pc = "done" =>
        /\ rt.got = Pattern(rt.N)
        /\ pos = rt.P + rt.N
        /\ rt.wpos = rt.P + rt.N

\* C7 witness: a round trip of 3 bytes from a position > 0 that needed a second
\* call has finished.
C7_Witness ==
    /\ rt.pc = "done"
    /\ rt.N = 3
    /\ rt.P > 0
    /\ ret.op = "read" /\ ret.at > rt.P

\* C8: Slice composition.  read_at on Slice(Slice(io, a..b), c..d) returns what
\* reading io at a + c + p returns, for the length clipped to both boundaries.
C8_Composition ==
    (Len(chain) = 2 /\ ret.op = "read_at") =>
        LET inner == chain[1]
            outer == chain[2]
            p     == ret.at
            clip  == Min(Min(ret.arg, SaturatingSub(outer.size, p)),
                         SaturatingSub(inner.size, outer.offset + p))
            direct == ResReadAt(mem, inner.offset + outer.offset + p, Zeroed(clip), ret.med)
        IN  /\ ret.kind = direct.kind
            /\ ret.err = direct.err
            /\ ret.n = direct.n
            /\ SubSeq(ret.buf, 1, ret.n) = SubSeq(direct.buf, 1, direct.n)

\* The same, for the calls that did not abort.
C8_CompositionNoAbort == ret.kind # "panic" => C8_Composition

\* What thread t's read returns when no other call runs: the bytes of the
\* resource at its own (translated, clipped) range.
SequentialCount(t, med) ==
    LET all == IF Target(t).off >= Len(mem) THEN 0
               ELSE Min(Target(t).len, Len(mem) - Target(t).off)
    IN  IF med = "short" THEN ShortOf(all) ELSE all

\* C9: concurrent read_at calls at non-overlapping ranges on one shared reader
\* return to each caller what the call returns when issued alone, in every
\* interleaving, for the positioned reader and for the mutex-guarded
\* seek-then-read reader, with and without a Slice around it.
C9_NoInterference ==
    \A t \in Threads :
        (tpc[t] = "done" /\ tres[t].kind = "ok") =>
            /\ tres[t].n = SequentialCount(t, tres[t].med)
            /\ Len(tres[t].buf) = treq[t].len
            /\ \A i \in 1..treq[t].len :
                  tres[t].buf[i] = IF i <= tres[t].n THEN mem[Target(t).off + i] ELSE 0

\* C9 witness: two threads of the mutex-guarded reader have both read bytes at
\* different offsets.
C9_Witness ==
    /\ reader = "mutex"
    /\ \A t \in Threads : tpc[t] = "done" /\ tres[t].kind = "ok" /\ tres[t].n >= 1
    /\ treq[1].off # treq[2].off

\* C10: an I/O error of the wrapped object's read_at, write_at, flush or size
\* query is what the Cursor or Slice operation that made the call returns
\* (Cursor read, write, flush, seek(End); Slice read_at, write_at, flush,
\* new_to_end): the same error, not another one and not a success.
C10_ErrorsPropagate ==
    /\ (ret.op \in {"read_at", "write_at", "read", "write"} /\ ret.med = "err" /\ ret.kind # "panic")
          => (ret.kind = "err" /\ ret.err = "io")
    /\ (ret.op \in {"flush", "cflush"} /\ ret.med = "err")
          => (ret.kind = "err" /\ ret.err = "io")
    /\ (ret.op = "seek_end" /\ ret.med = "err" /\ chain = <<>>)
          => (ret.kind = "err" /\ ret.err = "io" /\ pos = ret.at)
    /\ (ret.op = "new_to_end" /\ ret.med = "err")
          => (ret.kind = "err" /\ ret.err = "io")

\* C11: Slice::new_to_end(io, offset) succeeds exactly when io.size() reports a
\* definite size s; the Slice it makes has offset = offset and size = s - offset
\* (0 when offset > s).  When io reports no size it fails with InvalidData and
\* no Slice is made.
C11_NewToEnd ==
    ret.op = "new_to_end" =>
        LET sz == IoSize(<<>>, mem, known, ret.med)
        IN  /\ ret.kind = "ok" <=> (sz.kind = "ok" /\ sz.some)
            /\ ret.kind = "ok" =>
                  /\ Len(chain) = 1
                  /\ TheSlice.offset = ret.at
                  /\ TheSlice.size = IF ret.at > sz.n THEN 0 ELSE sz.n - ret.at
            /\ (sz.kind = "ok" /\ ~sz.some) =>
                  (ret.kind = "err" /\ ret.err = "InvalidData" /\ chain = <<>>)
            /\ ret.kind = "err" => chain = <<>>

\* C11 witness: new_to_end at an offset inside the vector made a Slice of the
\* bytes from there to the vector's end.
C11_Witness ==
    /\ ret.op = "new_to_end" /\ ret.kind = "ok"
    /\ ret.at > 0 /\ ret.at < Len(mem)
    /\ chain = <<[offset |-> ret.at, size |-> Len(mem) - ret.at]>>

\* C11 witness of the failing case: the resource reports no size, no Slice is made.
C11_WitnessUnknown ==
    /\ ret.op = "new_to_end" /\ ret.med = "full" /\ ~known
    /\ ret.kind = "err" /\ chain = <<>>

\* The Slices Slice::new makes for a range with an unbounded end.
UnboundedEndSlices == {SliceNew(sb, NoBound) : sb \in StartBounds}

\* C12: a Slice made with an unbounded end (Slice::new(io, a..)) reports
\* size() = None, and its read_at hands the wrapped object the whole buffer
\* length at offset a + pos, for every pos and every buffer.
C12_UnboundedNeverClips ==
    (chain # <<>> /\ TheSlice \in UnboundedEndSlices) =>
        /\ ret.op = "size" => (ret.kind = "ok" /\ ~ret.some)
        /\ ret.op = "read_at" => (ret.rlen = ret.arg /\ ret.roff = TheSlice.offset + ret.at)

\* The same for the reads whose last byte lies at or below the top address
\* u64::MAX - 1 of the Slice and whose offset sum does not overflow.
C12_UnclippedBelowTop ==
    (chain # <<>> /\ TheSlice \in UnboundedEndSlices) =>
        /\ ret.op = "size" => (ret.kind = "ok" /\ ~ret.some)
        /\ (/\ ret.op = "read_at"
            /\ ret.at + ret.arg <= U64Max
            /\ ret.at + TheSlice.offset <= U64Max)
              => (ret.rlen = ret.arg /\ ret.roff = TheSlice.offset + ret.at)

\* C13: write_all_at(P, buf) on Slice::new(io, a..) is not limited by the
\* current length of the wrapped vector: when it returns Ok all of buf is
\* stored at a+P .. a+P+len, the vector ends at the later of its previous end
\* and a+P+len, and every byte it held before a+P is as it was; it fails only
\* when the medium fails or the bytes do not fit the vector's capacity.
C13_UnboundedWriteAll ==
    LET s == TheSlice.offset + rt.P
    IN  /\ (rt.pc = "wa_done" /\ rt.N = 0) => mem = InitMem
        /\ (rt.pc = "wa_done" /\ rt.N > 0) =>
              /\ Len(mem) = (IF s + rt.N > InitLen THEN s + rt.N ELSE InitLen)
              /\ \A i \in 1..rt.N : mem[s + i] = Pattern(rt.N)[i]
              /\ \A i \in 1..Min(s, InitLen) : mem[i] = InitMem[i]
              /\ \A i \in (s + rt.N + 1)..InitLen : mem[i] = InitMem[i]
        /\ rt.pc = "wa_failed" =>
              (ret.kind = "err" /\ ret.med = "err") \/ s + rt.N > MaxLen

\* C13 witness: 2 bytes written at 2 through Slice::new(&mut v, 1..) of the
\* 3-byte vector, with a short write on the way: the vector is 5 bytes long.
C13_Witness ==
    /\ rt.pc = "wa_done" /\ rt.N = 2 /\ rt.P = 2
    /\ TheSlice.offset = 1
    /\ ret.at = 3
    /\ Len(mem) = 5
    /\ mem = SubSeq(InitMem, 1, 3) \o Pattern(2)

\* The first address of a range, the address behind its last one, and the
\* number of its addresses, in unbounded integers.
RangeFirst(sb) ==
    CASE sb.kind = "Included" -> sb.v
      [] sb.kind = "Excluded" -> sb.v + 1
      [] OTHER -> 0
RangePastLast(eb) ==
    CASE eb.kind = "Included" -> eb.v + 1
      [] eb.kind = "Excluded" -> eb.v
      [] OTHER -> Modulus
RangeCount(sb, eb) ==
    IF RangePastLast(eb) > RangeFirst(sb) THEN RangePastLast(eb) - RangeFirst(sb) ELSE 0

\* C14: Slice::new gives, for every combination of range bounds, an offset and
\* a size within u64 (nothing wraps, nothing aborts): the size is the number of
\* addresses of the range clamped to u64::MAX, 0 when the end does not exceed
\* the start, and u64::MAX for an unbounded end.
C14_NewSaturates ==
    ret.op = "new" =>
        /\ TheSlice.offset \in 0..U64Max
        /\ TheSlice.size \in 0..U64Max
        /\ TheSlice.offset = Min(RangeFirst(ret.sb), U64Max)
        /\ TheSlice.size = IF ret.eb.kind = "Unbounded" THEN U64Max
                           ELSE Min(RangeCount(ret.sb, ret.eb), U64Max)

\* The same for every range but the one that excludes u64::MAX as its start
\* and includes it as its end.
C14_NewSaturatesButTop ==
    (ret.op = "new" /\ ~(ret.sb = [kind |-> "Excluded", v |-> U64Max]
                         /\ ret.eb = [kind |-> "Included", v |-> U64Max]))
    => C14_NewSaturates

BoundedEnds == EndBounds \ {NoBound}

\* C15: Slice.size() is fixed at construction, whatever calls were made and
\* however the wrapped vector grew or shrank: it is Ok(Some(n)), n the length
\* of the constructed range, for every Slice built from a range with a bounded
\* end, and Ok(None) only for a Slice built with an unbounded end.
C15_SizeFixed ==
    (ret.op = "size" /\ chain # <<>>) =>
        /\ ret.kind = "ok"
        /\ \A sb \in StartBounds, eb \in BoundedEnds :
              TheSlice = SliceNew(sb, eb) => (ret.some /\ ret.n = SliceNew(sb, eb).size)
        /\ ~ret.some => TheSlice \in UnboundedEndSlices

\* The same for the ranges with a bounded end that hold fewer than u64::MAX
\* addresses; for the others size() is Ok(None), as for an unbounded end.
C15_SizeFixedBelowMax ==
    (ret.op = "size" /\ chain # <<>>) =>
        /\ ret.kind = "ok"
        /\ \A sb \in StartBounds, eb \in BoundedEnds :
              (TheSlice = SliceNew(sb, eb) /\ RangeCount(sb, eb) < U64Max)
                  => (ret.some /\ ret.n = SliceNew(sb, eb).size)
        /\ ~ret.some => TheSlice.size = U64Max
        /\ TheSlice.size = U64Max => ~ret.some

\* C16: for every Slice and every pos, read_at and write_at compute pos + offset
\* without wrapping and without aborting: a pos at or behind the Slice's end, or
\* one whose pos + offset exceeds u64::MAX, transfers 0 bytes, and no byte of
\* the wrapped resource is accessed at a wrapped-around offset.
C16_NoWrapNoAbort ==
    (chain # <<>> /\ ret.op \in {"read_at", "write_at"}) =>
        /\ ret.kind # "panic"
        /\ (ret.med # "err" /\ (ret.at >= TheSlice.size \/ ret.at + TheSlice.offset > U64Max))
              => (ret.kind = "ok" /\ ret.n = 0)
        /\ ret.rlen > 0 => ret.roff = ret.at + TheSlice.offset

\* The same for the calls whose pos + offset fits u64.
C16_InRange ==
    (chain # <<>> /\ ret.at + TheSlice.offset <= U64Max) => C16_NoWrapNoAbort

\* A build without overflow checks reads a byte at a wrapped-around offset.
C16_NoWrappedAccess ==
    (chain # <<>> /\ ret.op \in {"read_at", "write_at"} /\ ret.rlen > 0)
        => ret.roff = ret.at + TheSlice.offset

\* C17: seek(Current(delta)) succeeds for every pos and delta whose sum lies
\* in [0, u64::MAX]: pos becomes pos + delta and is returned, also for a pos of
\* 2^63 or more; the signed intermediate neither overflows nor turns negative.
C17_SeekCurrentInRange ==
    (ret.op = "seek_current" /\ ret.at + ret.arg >= 0 /\ ret.at + ret.arg <= U64Max)
    => (ret.kind = "ok" /\ pos = ret.at + ret.arg /\ ret.n = pos)

\* The same for the seeks that start and end below 2^63.
C17_SeekCurrentBelowSignBit ==
    (ret.at <= I64Max /\ ret.at + ret.arg <= I64Max) => C17_SeekCurrentInRange

C19_StreamWithinSlice ==
    /\ pos <= TheSlice.size
    /\ (ret.op \in {"read", "write"} /\ ret.at = TheSlice.size /\ ret.med # "err")
          => (ret.kind = "ok" /\ ret.n = 0 /\ pos = TheSlice.size)

\* The same, for the calls that did not abort.
C19_WithinSliceNoAbort == ret.kind # "panic" => C19_StreamWithinSlice

\* pos never passes the end of the Slice.
C19_PosWithinSlice == pos <= TheSlice.size

\* What holds while a Cursor is read to its end: the bytes read so far are the
\* resource's bytes [P, pos), pos lies between P and the length L, a read
\* returns 0 only at pos = L, and after the end of data pos is L.
ReadToEndSafe ==
    LET bytes == ResourceBytes(chain, mem)
        L     == Len(bytes)
    IN  /\ rt.P <= pos /\ pos <= L
        /\ rt.got = SubSeq(bytes, rt.P + 1, pos)
        /\ rt.done = pos - rt.P
        /\ (ret.op = "read" /\ ret.kind = "ok" /\ ret.n = 0) => (ret.at = L /\ pos = L)
        /\ (ret.op = "read" /\ ret.kind = "ok" /\ ret.n > 0) => pos = ret.at + ret.n
        /\ rt.pc = "eof" => (pos = L /\ rt.got = SubSeq(bytes, rt.P + 1, L))
        /\ rt.pc = "failed" => ret.med = "err"
        /\ ret.kind # "panic"

\* C20: reading a Cursor over a finite, unchanging resource of length L from
\* pos P <= L again and again with a non-empty buffer eventually returns 0
\* (when no read fails); until then the reads return consecutive runs with no
\* gap or overlap whose concatenation is the bytes [P, L), pos never decreases
\* and reaches L, and after the end of data it stays at L.
C20_ReadToEnd ==
    /\ []ReadToEndSafe
    /\ [][pos' >= pos]_vars
    /\ ([](ret.med # "err")) => <>(rt.pc = "eof")

\* C20 witness: the whole 3-byte vector was read from 0 in at least two reads
\* with data and the read that returned 0.
C20_Witness ==
    /\ rt.pc = "eof" /\ rt.P = 0 /\ rt.N >= 3
    /\ chain = <<>>
    /\ rt.got = InitMem
    /\ pos = Len(mem)
    /\ ret.op = "read" /\ ret.n = 0

====
